---------------------------- MODULE Spec2Model ----------------------------
(***************************************************************************)
(* Model of the ActiveLink component (components/active-link/ActiveLink.tsx)*)
(* and of the home page's link (app/page.tsx), together with the part of   *)
(* the host (React + next/navigation + next/link) the component consumes:  *)
(* the current pathname, the re-render a pathname change causes, and the   *)
(* navigation a click on a rendered link requests.                         *)
(*                                                                         *)
(* Strings are sequences of lexical fragments, so that "/about" is         *)
(* <<"/", "about">> and "/about/" is <<"/", "about", "/">>; equality of    *)
(* sequences is then exactly JavaScript's === on the strings they spell.   *)
(***************************************************************************)
EXTENDS Naturals, Sequences, FiniteSets

(***************************************************************************)
(* Bounds of the model.                                                    *)
(***************************************************************************)
MaxLen == 3
NumLinks == 2
MaxObserved == 3

(***************************************************************************)
(* Strings.                                                                *)
(***************************************************************************)
Fragments == {"/", "about", "About"}

StringsUpTo(n) == UNION {[1..k -> Fragments] : k \in 0..n}

Strings == StringsUpTo(MaxLen)

\* JavaScript's null, the value usePathname() yields when the host has no
\* pathname; it is no string, so it differs from every member of Strings.
Null == <<"null">>

EmptyString == <<>>

Labels == {"Home", "About Page"}

\* String helpers of the faulty variants below (startsWith, toLowerCase, and
\* the removal of a trailing slash).
IsPrefix(s, t) == Len(s) <= Len(t) /\ SubSeq(t, 1, Len(s)) = s

Lower(c) == IF c = "About" THEN "about" ELSE c

ToLowerCase(s) == [k \in DOMAIN s |-> Lower(s[k])]

StripTrailingSlash(s) ==
    IF Len(s) > 1 /\ s[Len(s)] = "/" THEN SubSeq(s, 1, Len(s) - 1) ELSE s

(***************************************************************************)
(* The CSS module imported as `style`: class names by key.                 *)
(***************************************************************************)
style == [link |-> "link", activeLink |-> "active-link"]

\* `${ c && s }` inside a template literal: s when c is true, and the text
\* of the boolean false when it is not.
AndToString(c, s) == IF c THEN s ELSE "false"

\* Faulty variant: pathName.startsWith(path).
StrictEqualsPrefix(a, b) == a # Null /\ IsPrefix(b, a)

\* Faulty variant: the comparison ignores case and a trailing slash.
StrictEqualsNormalized(a, b) ==
    a # Null /\ ToLowerCase(StripTrailingSlash(a)) = ToLowerCase(StripTrailingSlash(b))

\* Faulty variant: (pathName ?? '') === path.
StrictEqualsNullAsEmpty(a, b) == (IF a = Null THEN EmptyString ELSE a) = b

\* pathName === path
StrictEquals(a, b) == a = b

\* Faulty variant: the active class is given when pathName !== path.
ClassNameNegated(pathName, path) ==
    <<style.link, " ", AndToString(~StrictEquals(pathName, path), style.activeLink)>>

\* The template literal `${ style.link } ${ (pathName === path) && ... }`,
\* as the sequence of its pieces.
ClassName(pathName, path) ==
    <<style.link, " ", AndToString(StrictEquals(pathName, path), style.activeLink)>>

\* The class tokens of a className attribute (what the DOM's classList holds).
ClassList(className) == {className[k] : k \in DOMAIN className} \ {" "}

\* Faulty variant: the href is the literal '/' instead of the path prop.
ActiveLinkHrefRoot(path, label, pathName) ==
    [className |-> ClassName(pathName, path), href |-> <<"/">>, children |-> label]

\* The element the component returns for props {path, label} when
\* usePathname() yields pathName.
ActiveLink(path, label, pathName) ==
    [className |-> ClassName(pathName, path), href |-> path, children |-> label]

\* What the DOM holds for a component that is not rendered.
Unrendered == [tag |-> "none"]

\* A rendered element shows the active presentational state.
IsActive(el) == el # Unrendered /\ style.activeLink \in ClassList(el.className)

\* input: the props and the pathname one call of the component is given;
\* output: the element that call returned.
VARIABLES input, output

pureVars == <<input, output>>

\* location: the host's current pathname; props: each instance's props;
\* mounted: the instances in the tree; subscribed: those the host notifies of
\* a pathname change; pending: those notified and not yet rendered again;
\* dom: each instance's committed element; requested: the router's latest
\* navigation; observed, postUnmount: the observer's notes.
VARIABLES location, props, mounted, subscribed, pending, dom, requested,
          observed, postUnmount

hostVars == <<location, props, mounted, subscribed, pending, dom, requested,
              observed, postUnmount>>

vars == <<input, output, location, props, mounted, subscribed, pending, dom,
          requested, observed, postUnmount>>

(***************************************************************************)
(* The component in its host: a page tree holding NumLinks ActiveLink      *)
(* instances, the host's current pathname, and the host's navigation.      *)
(***************************************************************************)
Links == 1..NumLinks

\* The paths given to the instances.
LinkPaths == {EmptyString, <<"/">>, <<"/", "about">>}

\* The pathnames the user visits by other means than the links.
Locations == {<<"/">>, <<"/", "about">>, <<"/", "About">>}

\* Who asked for a navigation: {i} for instance i, and the empty set for
\* anything else (the home page's own link, the user's address bar).
NotALink == {}

\* The router's latest navigation: its target, who asked for it, and whether
\* the host has applied it. Before any navigation there is none to apply.
NoRequest == [to |-> Null, by |-> NotALink, applied |-> TRUE]

Request(to, by) == [to |-> to, by |-> by, applied |-> FALSE]

\* The label given to instance i.
LabelOf(i) == IF i = 1 THEN "Home" ELSE "About Page"

\* usePathname(): the host's current pathname, read at render.
usePathname == location

\* What an observer of instance i notes once a render has completed: whether
\* the host's pathname is the instance's path, and what the element shows.
Observation(i, el) ==
    [atPath |-> location = props[i].path, active |-> IsActive(el),
     label |-> el.children, href |-> el.href]

\* postUnmount follows the watched instance after its unmount: "unmounted"
\* once it is unmounted, "changed" once the pathname has changed since, and
\* "idle" while it is mounted or was never mounted.

\* The instance the observer watches.
Watched == CHOOSE i \in Links : TRUE

\* The observer's notes after a render of instance i with element el: the
\* first MaxObserved observations of the watched instance since its mount.
Note(i, el) ==
    IF i = Watched /\ Len(observed) < MaxObserved
    THEN Append(observed, Observation(i, el))
    ELSE observed

\* The host with nothing mounted and no navigation requested.
InitHost ==
    /\ mounted = {}
    /\ subscribed = {}
    /\ pending = {}
    /\ dom = [i \in Links |-> Unrendered]
    /\ requested = NoRequest
    /\ observed = <<>>
    /\ postUnmount = "idle"

Init ==
    /\ input = [path |-> EmptyString, label |-> "Home", pathName |-> Null]
    /\ output = Unrendered
    /\ location \in Locations \cup {Null}
    /\ props \in {f \in [Links -> [path : LinkPaths, label : Labels]] :
                     \A i \in Links : f[i].label = LabelOf(i)}
    /\ InitHost

\* Faulty variant: the element of the first render is kept (the active flag
\* is computed once and cached).
RenderStale(i) ==
    LET el == IF dom[i] = Unrendered
              THEN ActiveLink(props[i].path, props[i].label, usePathname)
              ELSE dom[i]
    IN  /\ dom' = [dom EXCEPT ![i] = el]
        /\ observed' = Note(i, el)
        /\ pending' = pending \ {i}
        /\ UNCHANGED <<location, props, requested, pureVars>>

\* Faulty variant: rendering redirects the host to the instance's path.
RenderNavigates(i) ==
    LET el == ActiveLink(props[i].path, props[i].label, usePathname)
    IN  /\ dom' = [dom EXCEPT ![i] = el]
        /\ observed' = Note(i, el)
        /\ pending' = pending \ {i}
        /\ location' = props[i].path
        /\ UNCHANGED <<props, requested, pureVars>>

\* Faulty variant: each render adds to the class name of the previous one.
RenderAccumulates(i) ==
    LET fresh == ActiveLink(props[i].path, props[i].label, usePathname)
        el == IF dom[i] = Unrendered
              THEN fresh
              ELSE [fresh EXCEPT !.className = dom[i].className \o <<" ", "false">>]
    IN  /\ dom' = [dom EXCEPT ![i] = el]
        /\ observed' = Note(i, el)
        /\ pending' = pending \ {i}
        /\ UNCHANGED <<location, props, requested, pureVars>>

\* One call of the component function for instance i, its result committed
\* to the DOM: it reads the pathname and writes nothing but its own element.
Render(i) ==
    LET el == ActiveLink(props[i].path, props[i].label, usePathname)
    IN  /\ dom' = [dom EXCEPT ![i] = el]
        /\ observed' = Note(i, el)
        /\ pending' = pending \ {i}
        /\ UNCHANGED <<location, props, requested, pureVars>>

\* The host mounts instance i: the first render is synchronous, and the
\* usePathname() hook subscribes the instance to pathname changes.
Mount(i) ==
    /\ i \notin mounted
    /\ mounted' = mounted \cup {i}
    /\ subscribed' = subscribed \cup {i}
    /\ postUnmount' = IF i = Watched THEN "idle" ELSE postUnmount
    /\ Render(i)

\* Faulty variant: the subscription outlives the instance.
UnmountLeaks(i) ==
    /\ i \in mounted
    /\ mounted' = mounted \ {i}
    /\ dom' = [dom EXCEPT ![i] = Unrendered]
    /\ observed' = IF i = Watched THEN <<>> ELSE observed
    /\ postUnmount' = IF i = Watched THEN "unmounted" ELSE postUnmount
    /\ UNCHANGED <<location, props, requested, subscribed, pending, pureVars>>

\* The host unmounts instance i: its element leaves the DOM and its hook's
\* subscription is dropped in the same step.
Unmount(i) ==
    /\ i \in mounted
    /\ mounted' = mounted \ {i}
    /\ subscribed' = subscribed \ {i}
    /\ pending' = pending \ {i}
    /\ dom' = [dom EXCEPT ![i] = Unrendered]
    /\ observed' = IF i = Watched THEN <<>> ELSE observed
    /\ postUnmount' = IF i = Watched THEN "unmounted" ELSE postUnmount
    /\ UNCHANGED <<location, props, requested, pureVars>>

\* The render a pathname change causes in a notified instance.
Rerender(i) ==
    /\ i \in pending
    /\ Render(i)
    /\ UNCHANGED <<mounted, subscribed, postUnmount>>

\* A render the parent causes in an instance that awaits no notification.
ParentRerender(i) ==
    /\ i \in mounted
    /\ i \notin pending
    /\ Render(i)
    /\ UNCHANGED <<mounted, subscribed, postUnmount>>

\* The user activates the rendered element of instance i: next/link asks the
\* router for a client-side transition to the element's href.
Click(i) ==
    /\ i \in mounted
    /\ requested' = Request(dom[i].href, {i})
    /\ UNCHANGED <<location, props, mounted, subscribed, pending, dom, observed,
                   postUnmount, pureVars>>

\* The home page (route "/") renders <Link href={'/about'}>About Page</Link>.
ClickHomeLink ==
    /\ location = <<"/">>
    /\ requested' = Request(<<"/", "about">>, NotALink)
    /\ UNCHANGED <<location, props, mounted, subscribed, pending, dom, observed,
                   postUnmount, pureVars>>

\* The user navigates by some other means (address bar, back button).
UserNavigate(l) ==
    /\ requested' = Request(l, NotALink)
    /\ UNCHANGED <<location, props, mounted, subscribed, pending, dom, observed,
                   postUnmount, pureVars>>

\* The host applies the requested transition and notifies the subscribers of
\* a pathname that changed.
ApplyTransition ==
    /\ ~requested.applied
    /\ location' = requested.to
    /\ requested' = [requested EXCEPT !.applied = TRUE]
    /\ pending' = IF requested.to # location THEN pending \cup subscribed ELSE pending
    /\ postUnmount' = IF postUnmount = "unmounted" /\ requested.to # location
                       THEN "changed"
                       ELSE postUnmount
    /\ UNCHANGED <<props, mounted, subscribed, dom, observed, pureVars>>

Next ==
    \/ \E i \in Links : Mount(i)
    \/ \E i \in Links : Unmount(i)
    \/ \E i \in Links : Rerender(i)
    \/ \E i \in Links : ParentRerender(i)
    \/ \E i \in Links : Click(i)
    \/ ClickHomeLink
    \/ \E l \in Locations : UserNavigate(l)
    \/ ApplyTransition

Spec == Init /\ [][Next]_vars

(***************************************************************************)
(* The component as a function of (props, pathname): every pair of inputs. *)
(***************************************************************************)
InitPure ==
    /\ input \in [path : Strings, label : Labels, pathName : Strings \cup {Null}]
    /\ output = Unrendered
    /\ location = Null
    /\ props = [i \in Links |-> [path |-> EmptyString, label |-> LabelOf(i)]]
    /\ InitHost

\* One call of the component function on the inputs.
RenderPure ==
    /\ output' = ActiveLink(input.path, input.label, input.pathName)
    /\ UNCHANGED <<input, hostVars>>

NextPure == RenderPure

SpecPure == InitPure /\ [][NextPure]_vars

(***************************************************************************)
(* Properties.                                                             *)
(***************************************************************************)
Path(i) == props[i].path

\* Instance i is mounted and awaits no render: its element is the one its
\* last render committed, and every notification it got has been rendered.
Settled(i) == i \in mounted /\ i \notin pending

\* C1: for every pair (path, pathname), the rendered element shows the
\* active state if and only if the pathname is exactly the path; a prefix, a
\* difference of case or a trailing slash never makes it active.
ExactMatchOnly ==
    output # Unrendered => (IsActive(output) <=> input.pathName = input.path)

\* C1, reached: the pathname "/About/" rendered against the path "/about",
\* which differ in case and by a trailing slash, shows the inactive state.
ExactMatchWitness ==
    /\ output # Unrendered
    /\ input.path = <<"/", "about">>
    /\ input.pathName = <<"/", "About", "/">>
    /\ ~IsActive(output)

\* C2: whenever the watched instance is observed at a pathname other than
\* its path, later at its path, and later again at another pathname, it shows
\* Inactive, then Active, then Inactive, with the same label and the same
\* href, those of its props, in all three observations.
ReactivityInactiveActiveInactive ==
    \A k1, k2, k3 \in DOMAIN observed :
        (/\ k1 < k2
         /\ k2 < k3
         /\ ~observed[k1].atPath
         /\ observed[k2].atPath
         /\ ~observed[k3].atPath)
        => /\ ~observed[k1].active
           /\ observed[k2].active
           /\ ~observed[k3].active
           /\ \A k \in {k1, k2, k3} :
                  /\ observed[k].label = props[Watched].label
                  /\ observed[k].href = Path(Watched)

\* C2, reached: three successive observations away from the path, at it, and
\* away from it again, showing Inactive, Active, Inactive.
ReactivityWitness ==
    /\ Len(observed) = 3
    /\ ~observed[1].atPath /\ ~observed[1].active
    /\ observed[2].atPath /\ observed[2].active
    /\ ~observed[3].atPath /\ ~observed[3].active

\* C3: a mounted instance that awaits no render shows the active state
\* exactly when the host's current pathname is its path; an element that
\* disagrees with the pathname exists only while its render is pending.
NoStaleActiveFlag ==
    \A i \in Links : Settled(i) => (IsActive(dom[i]) <=> location = Path(i))

\* C3, reached: a navigation was applied, the watched instance was notified
\* and rendered again, and what it shows changed with the pathname.
NoStaleWitness ==
    /\ Settled(Watched)
    /\ requested.applied /\ requested # NoRequest
    /\ Len(observed) >= 2
    /\ observed[Len(observed)].active # observed[Len(observed) - 1].active
    /\ IsActive(dom[Watched]) = observed[Len(observed)].active

\* C4: an unmounted instance is subscribed to nothing and awaits no render
\* from the step of its unmount on, it has no element, and no later step
\* renders it or adds to the observations while it stays unmounted.
CleanupOnUnmount ==
    /\ [](\A i \in Links : i \notin mounted =>
              /\ i \notin subscribed
              /\ i \notin pending
              /\ dom[i] = Unrendered)
    /\ [][\A i \in Links : (i \notin mounted /\ i \notin mounted') =>
              /\ dom'[i] = dom[i]
              /\ (i = Watched => observed' = observed)]_vars

\* C4, reached: the watched instance was unmounted, the pathname has changed
\* since and the other subscribers were notified, and the instance has no
\* element and no pending render.
CleanupWitness ==
    /\ postUnmount = "changed"
    /\ Watched \notin mounted
    /\ pending # {}
    /\ dom[Watched] = Unrendered
    /\ observed = <<>>

\* C5: with the empty string as path the component renders an element (the
\* label, href "") and that element is inactive for every pathname other
\* than the empty string.
EmptyTargetNeverActive ==
    (output # Unrendered /\ input.path = EmptyString)
    => /\ output.href = EmptyString
       /\ output.children = input.label
       /\ (input.pathName # EmptyString => ~IsActive(output))

\* C5, reached: path "" rendered at pathname "/", inactive.
EmptyTargetWitness ==
    /\ output # Unrendered
    /\ input.path = EmptyString
    /\ input.pathName = <<"/">>
    /\ ~IsActive(output)

\* C6: a navigation asked for by a click on instance i has exactly i's path
\* as its target; and once the host has applied it and i has rendered the
\* notification, i shows the active state.
ClickNavigatesToOwnPath ==
    \A i \in Links :
        requested.by = {i}
        => /\ requested.to = Path(i)
           /\ (requested.applied /\ Settled(i)) => IsActive(dom[i])

\* C6, reached: a click on the watched instance while the pathname was
\* another one, the transition applied, the instance rendered again, active.
ClickWitness ==
    /\ requested.by = {Watched}
    /\ requested.applied
    /\ Settled(Watched)
    /\ Len(observed) >= 2
    /\ ~observed[Len(observed) - 1].active
    /\ IsActive(dom[Watched])

\* C7: the props never change; a step that mounts, renders or unmounts an
\* instance leaves the host's pathname as it was; and the pathname changes
\* only by the host applying the navigation it was asked for.
ReadsLocationOnly ==
    [][/\ props' = props
       /\ (dom' # dom \/ mounted' # mounted) => location' = location
       /\ location' # location =>
              /\ ~requested.applied
              /\ requested'.applied
              /\ location' = requested.to]_vars

\* C7, reached: the watched instance was mounted, rendered again and
\* unmounted, the pathname being one the host navigated to.
ReadsLocationWitness ==
    /\ postUnmount = "unmounted"
    /\ \E i \in Links : Settled(i) /\ i # Watched
    /\ requested.applied /\ requested # NoRequest
    /\ location = requested.to

\* C8: a render of an instance that awaits no notification, the pathname
\* being unchanged, leaves its element (class name, href, label) as it was.
RenderIdempotent ==
    [][\A i \in Links :
           (Settled(i) /\ i \in mounted' /\ location' = location)
           => dom'[i] = dom[i]]_vars

\* C8, reached: no navigation ever happened and the watched instance was
\* rendered three times, each observation equal to the first.
RenderIdempotentWitness ==
    /\ requested = NoRequest
    /\ Settled(Watched)
    /\ Len(observed) = 3
    /\ observed[2] = observed[1]
    /\ observed[3] = observed[1]

\* C9: the class tokens of the rendered element are the base class and the
\* active class when the pathname is the path, and the base class alone when
\* it is not.
ClassNameComposition ==
    output # Unrendered
    => ClassList(output.className) =
           IF input.pathName = input.path
           THEN {style.link, style.activeLink}
           ELSE {style.link}

\* C10: when no render is pending, the mounted instances whose paths differ
\* pairwise show at most one active element, and none when the pathname is
\* none of their paths or the host has no pathname.
AtMostOneActive ==
    (/\ pending = {}
     /\ \A i, j \in mounted : i # j => Path(i) # Path(j))
    => /\ Cardinality({i \in mounted : IsActive(dom[i])}) <= 1
       /\ ((location = Null \/ \A i \in mounted : location # Path(i))
           => \A i \in mounted : ~IsActive(dom[i]))

\* C10, reached: all instances mounted with pairwise different paths, a
\* navigation applied and rendered by all, exactly one of them active.
AtMostOneActiveWitness ==
    /\ mounted = Links
    /\ pending = {}
    /\ \A i, j \in Links : i # j => Path(i) # Path(j)
    /\ requested.applied /\ requested # NoRequest
    /\ Cardinality({i \in Links : IsActive(dom[i])}) = 1
=============================================================================
